---- MODULE Spec2Model ----
(***************************************************************************)
(* Evaluation of docs/.vuepress/collections/cppstudy.ts.                   *)
(*                                                                         *)
(* The module imports defineCollection, evaluates one object literal       *)
(* (property by property, in source order, the nested sidebar literal      *)
(* included), passes the resulting object to defineCollection and binds    *)
(* the result as the default export.                                       *)
(*                                                                         *)
(* A JavaScript string is a sequence of its UTF-16 code units (all the     *)
(* characters of this file are in the basic plane, so one unit each).      *)
(* A JavaScript value is a record [t |-> <typeof tag>, v |-> <payload>];   *)
(* an object's payload is a function from property names to values.        *)
(*                                                                         *)
(* The content directory and the permalinks of its markdown files are the  *)
(* environment of the evaluation: they are chosen freely in Init and the   *)
(* module never reads them.                                                *)
(***************************************************************************)
EXTENDS Integers, Sequences, FiniteSets, TLC

VARIABLES
    pc,        \* position of the module's evaluation
    obj,       \* the top-level object literal under construction
    groups,    \* sidebar: [ ... ] elements evaluated so far
    grp,       \* the sidebar group literal under construction
    items,     \* items: [ ... ] elements evaluated so far
    allocs,    \* how many times the top-level literal has been allocated
    passed,    \* the arguments defineCollection has been called with
    exported,  \* whether the default export is bound
    files,     \* environment: markdown files present under docs/<dir>
    permalink  \* environment: the permalink of each present file

vars == <<pc, obj, groups, grp, items, allocs, passed, exported, files, permalink>>

env == <<files, permalink>>

(***************************************************************************)
(* Bounds                                                                  *)
(***************************************************************************)
\* markdown files of the directory that no sidebar item links to
MaxExtraFiles == 1

(***************************************************************************)
(* JavaScript values                                                       *)
(***************************************************************************)
Str(s) == [t |-> "string", v |-> s]

Bool(b) == [t |-> "boolean", v |-> b]

Arr(s) == [t |-> "array", v |-> s]

Obj(f) == [t |-> "object", v |-> f]

\* {} : the object with no own property
EmptyProps == <<>>

\* no group literal is being evaluated
NoGroup == [t |-> "none", v |-> <<>>]

(***************************************************************************)
(* String functions                                                        *)
(***************************************************************************)
StartsWith(s, p) == Len(p) <= Len(s) /\ SubSeq(s, 1, Len(p)) = p

EndsWith(s, p) == Len(p) <= Len(s) /\ SubSeq(s, Len(s) - Len(p) + 1, Len(s)) = p

\* first position of code unit c in s, 0 when absent
IndexOf(s, c) ==
    IF \E i \in 1..Len(s) : s[i] = c
    THEN CHOOSE i \in 1..Len(s) : s[i] = c /\ \A j \in 1..(i - 1) : s[j] # c
    ELSE 0

\* s.split('/')
RECURSIVE Split(_)
Split(s) ==
    LET i == IndexOf(s, 47)
    IN  IF i = 0 THEN <<s>>
        ELSE <<SubSeq(s, 1, i - 1)>> \o Split(SubSeq(s, i + 1, Len(s)))

IsDigit(c) == c \in 48..57

(***************************************************************************)
(* The literals of the source                                              *)
(***************************************************************************)
\* type: 'doc'
SrcType == <<100, 111, 99>>

\* dir: 'cppstudy'
SrcDir == <<99, 112, 112, 115, 116, 117, 100, 121>>

\* a prefix written with a trailing slash: '/cppstudy/'
SrcLinkPrefixTrailingSlash == <<47, 99, 112, 112, 115, 116, 117, 100, 121, 47>>

\* linkPrefix: '/cppstudy'
SrcLinkPrefix == <<47, 99, 112, 112, 115, 116, 117, 100, 121>>

\* title: 'cppstudy'
SrcTitle == <<99, 112, 112, 115, 116, 117, 100, 121>>

\* sidebarCollapsed: true
SrcSidebarCollapsed == TRUE

\* the seven elements with chapters four and five in exchanged positions
SrcItemsSwapped ==
    << [text |-> <<31532, 19968, 31456, 32, 22522, 26412, 27010, 24565>>,
        link |-> <<48, 48, 49, 45, 22522, 26412, 27010, 24565, 46, 109, 100>>],
       [text |-> <<31532, 20108, 31456, 32, 22522, 26412, 25968, 25454, 31867, 22411>>,
        link |-> <<48, 48, 50, 45, 22522, 26412, 25968, 25454, 31867, 22411, 46, 109, 100>>],
       [text |-> <<31532, 19977, 31456, 32, 22788, 29702, 22522, 26412, 25968, 25454, 31867, 22411>>,
        link |-> <<48, 48, 51, 45, 22788, 29702, 22522, 26412, 25968, 25454, 31867, 22411, 46, 109, 100>>],
       [text |-> <<31532, 20116, 31456, 32, 25968, 32452, 21644, 24490, 29615>>,
        link |-> <<48, 48, 53, 45, 25968, 32452, 21644, 24490, 29615, 46, 109, 100>>],
       [text |-> <<31532, 22235, 31456, 32, 20915, 31574>>,
        link |-> <<48, 48, 52, 45, 20915, 31574, 46, 109, 100>>],
       [text |-> <<31532, 20845, 31456, 32, 25351, 38024, 21644, 24341, 29992>>,
        link |-> <<48, 48, 54, 45, 25351, 38024, 21644, 24341, 29992, 46, 109, 100>>],
       [text |-> <<31532, 19971, 31456, 32, 25805, 20316, 23383, 31526, 20018>>,
        link |-> <<48, 48, 55, 45, 25805, 20316, 23383, 31526, 20018, 46, 109, 100>>] >>

\* the seven elements, the third one's label copied from the second
SrcItemsMislabelled ==
    << [text |-> <<31532, 19968, 31456, 32, 22522, 26412, 27010, 24565>>,
        link |-> <<48, 48, 49, 45, 22522, 26412, 27010, 24565, 46, 109, 100>>],
       [text |-> <<31532, 20108, 31456, 32, 22522, 26412, 25968, 25454, 31867, 22411>>,
        link |-> <<48, 48, 50, 45, 22522, 26412, 25968, 25454, 31867, 22411, 46, 109, 100>>],
       [text |-> <<31532, 20108, 31456, 32, 22522, 26412, 25968, 25454, 31867, 22411>>,
        link |-> <<48, 48, 51, 45, 22788, 29702, 22522, 26412, 25968, 25454, 31867, 22411, 46, 109, 100>>],
       [text |-> <<31532, 22235, 31456, 32, 20915, 31574>>,
        link |-> <<48, 48, 52, 45, 20915, 31574, 46, 109, 100>>],
       [text |-> <<31532, 20116, 31456, 32, 25968, 32452, 21644, 24490, 29615>>,
        link |-> <<48, 48, 53, 45, 25968, 32452, 21644, 24490, 29615, 46, 109, 100>>],
       [text |-> <<31532, 20845, 31456, 32, 25351, 38024, 21644, 24341, 29992>>,
        link |-> <<48, 48, 54, 45, 25351, 38024, 21644, 24341, 29992, 46, 109, 100>>],
       [text |-> <<31532, 19971, 31456, 32, 25805, 20316, 23383, 31526, 20018>>,
        link |-> <<48, 48, 55, 45, 25805, 20316, 23383, 31526, 20018, 46, 109, 100>>] >>

\* the elements of items: [ ... ], each { text: "...", link: '...' }
SrcItems ==
    << \* "第一章 基本概念", '001-基本概念.md'
       [text |-> <<31532, 19968, 31456, 32, 22522, 26412, 27010, 24565>>,
        link |-> <<48, 48, 49, 45, 22522, 26412, 27010, 24565, 46, 109, 100>>],
       \* "第二章 基本数据类型", '002-基本数据类型.md'
       [text |-> <<31532, 20108, 31456, 32, 22522, 26412, 25968, 25454, 31867, 22411>>,
        link |-> <<48, 48, 50, 45, 22522, 26412, 25968, 25454, 31867, 22411, 46, 109, 100>>],
       \* "第三章 处理基本数据类型", '003-处理基本数据类型.md'
       [text |-> <<31532, 19977, 31456, 32, 22788, 29702, 22522, 26412, 25968, 25454, 31867, 22411>>,
        link |-> <<48, 48, 51, 45, 22788, 29702, 22522, 26412, 25968, 25454, 31867, 22411, 46, 109, 100>>],
       \* "第四章 决策", '004-决策.md'
       [text |-> <<31532, 22235, 31456, 32, 20915, 31574>>,
        link |-> <<48, 48, 52, 45, 20915, 31574, 46, 109, 100>>],
       \* "第五章 数组和循环", '005-数组和循环.md'
       [text |-> <<31532, 20116, 31456, 32, 25968, 32452, 21644, 24490, 29615>>,
        link |-> <<48, 48, 53, 45, 25968, 32452, 21644, 24490, 29615, 46, 109, 100>>],
       \* "第六章 指针和引用", '006-指针和引用.md'
       [text |-> <<31532, 20845, 31456, 32, 25351, 38024, 21644, 24341, 29992>>,
        link |-> <<48, 48, 54, 45, 25351, 38024, 21644, 24341, 29992, 46, 109, 100>>],
       \* "第七章 操作字符串", '007-操作字符串.md'
       [text |-> <<31532, 19971, 31456, 32, 25805, 20316, 23383, 31526, 20018>>,
        link |-> <<48, 48, 55, 45, 25805, 20316, 23383, 31526, 20018, 46, 109, 100>>] >>

\* the group with its links written from the docs root: '/cppstudy/001-....md'
SrcSidebarRooted ==
    << [text      |-> <<67, 43, 43, 58, 32, 22522, 30784, 35821, 27861>>,
        collapsed |-> TRUE,
        items     |-> [i \in 1..Len(SrcItems) |->
                          [text |-> SrcItems[i].text,
                           link |-> <<47>> \o SrcDir \o <<47>> \o SrcItems[i].link]]] >>

\* the elements of sidebar: [ ... ]; one group, text 'C++: 基础语法'
SrcSidebar ==
    << [text      |-> <<67, 43, 43, 58, 32, 22522, 30784, 35821, 27861>>,
        collapsed |-> TRUE,
        items     |-> SrcItems] >>

\* the property names of the top-level literal, in source order
PropOrder == <<"type", "dir", "linkPrefix", "title", "sidebar", "sidebarCollapsed">>

\* the initializers with the flag written as the string 'true'
ScalarValueQuoted(k) ==
    CASE k = "type"             -> Str(SrcType)
      [] k = "dir"              -> Str(SrcDir)
      [] k = "linkPrefix"       -> Str(SrcLinkPrefix)
      [] k = "title"            -> Str(SrcTitle)
      [] k = "sidebarCollapsed" -> Str(<<116, 114, 117, 101>>)

\* the value the initializer of a scalar top-level property evaluates to
ScalarValue(k) ==
    CASE k = "type"             -> Str(SrcType)
      [] k = "dir"              -> Str(SrcDir)
      [] k = "linkPrefix"       -> Str(SrcLinkPrefix)
      [] k = "title"            -> Str(SrcTitle)
      [] k = "sidebarCollapsed" -> Bool(SrcSidebarCollapsed)

(***************************************************************************)
(* The environment: the content directory                                  *)
(***************************************************************************)
\* a markdown file no sidebar item names: 'x<k>.md'
ExtraFile(k) == <<120, 48 + k, 46, 109, 100>>

\* the file names the directory may hold
FileUniverse ==
    UNION { { SrcSidebar[g].items[i].link : i \in 1..Len(SrcSidebar[g].items) } :
            g \in 1..Len(SrcSidebar) }
    \cup { ExtraFile(k) : k \in 1..MaxExtraFiles }

\* a permalink under the collection's prefix / '/notes/': one outside it
PermalinkChoices ==
    { <<47, 99, 112, 112, 115, 116, 117, 100, 121, 47>>,
      <<47, 110, 111, 116, 101, 115, 47>> }

(***************************************************************************)
(* Evaluation of the module                                                *)
(***************************************************************************)
Init ==
    /\ pc = "import"
    /\ obj = EmptyProps
    /\ groups = <<>>
    /\ grp = NoGroup
    /\ items = <<>>
    /\ allocs = 0
    /\ passed = <<>>
    /\ exported = FALSE
    /\ files \in SUBSET FileUniverse
    /\ permalink \in [files -> PermalinkChoices]

\* the top-level property whose initializer is evaluated next
NextProp == PropOrder[Cardinality(DOMAIN obj) + 1]

\* import { defineCollection } from 'vuepress-theme-plume'
ImportDefineCollection ==
    /\ pc = "import"
    /\ pc' = "literal"
    /\ UNCHANGED <<obj, groups, grp, items, allocs, passed, exported, env>>

\* the argument expression `{` : a fresh object
AllocRecord ==
    /\ pc = "literal"
    /\ obj' = EmptyProps
    /\ allocs' = allocs + 1
    /\ pc' = "props"
    /\ UNCHANGED <<groups, grp, items, passed, exported, env>>

\* after property k is defined: on to the next property, or to the call
AfterProp(k) == IF k = PropOrder[Len(PropOrder)] THEN "call" ELSE "props"

\* type, dir, linkPrefix, title, sidebarCollapsed: a literal initializer
EvalProperty ==
    /\ pc = "props"
    /\ NextProp # "sidebar"
    /\ obj' = obj @@ (NextProp :> ScalarValue(NextProp))
    /\ pc' = AfterProp(NextProp)
    /\ UNCHANGED <<groups, grp, items, allocs, passed, exported, env>>

\* sidebar: [ { text: ..., collapsed: ..., -- the group's scalar properties
BeginGroup ==
    /\ pc = "props"
    /\ NextProp = "sidebar"
    /\ grp = NoGroup
    /\ Len(groups) < Len(SrcSidebar)
    /\ LET src == SrcSidebar[Len(groups) + 1]
       IN  grp' = Obj(("text" :> Str(src.text)) @@ ("collapsed" :> Bool(src.collapsed)))
    /\ items' = <<>>
    /\ UNCHANGED <<pc, obj, groups, allocs, passed, exported, env>>

\* an element that is checked against the content directory as it is built
EvalItemValidated ==
    /\ pc = "props"
    /\ NextProp = "sidebar"
    /\ grp # NoGroup
    /\ LET src == SrcSidebar[Len(groups) + 1].items
       IN  /\ Len(items) < Len(src)
           /\ IF /\ src[Len(items) + 1].link \in files
                 /\ StartsWith(permalink[src[Len(items) + 1].link], SrcLinkPrefix)
              THEN /\ items' = Append(items,
                         Obj(("text" :> Str(src[Len(items) + 1].text))
                             @@ ("link" :> Str(src[Len(items) + 1].link))))
                   /\ pc' = pc
              ELSE /\ pc' = "threw"
                   /\ items' = items
    /\ UNCHANGED <<obj, groups, grp, allocs, passed, exported, env>>

\* items: [ ..., { text: "...", link: '...' }, -- one element
EvalItem ==
    /\ pc = "props"
    /\ NextProp = "sidebar"
    /\ grp # NoGroup
    /\ LET src == SrcSidebar[Len(groups) + 1].items
       IN  /\ Len(items) < Len(src)
           /\ items' = Append(items,
                  Obj(("text" :> Str(src[Len(items) + 1].text))
                      @@ ("link" :> Str(src[Len(items) + 1].link))))
    /\ UNCHANGED <<pc, obj, groups, grp, allocs, passed, exported, env>>

\* ] }, -- the group's items array is complete, the group is an element
EndGroup ==
    /\ pc = "props"
    /\ NextProp = "sidebar"
    /\ grp # NoGroup
    /\ Len(items) = Len(SrcSidebar[Len(groups) + 1].items)
    /\ groups' = Append(groups, Obj(grp.v @@ ("items" :> Arr(items))))
    /\ grp' = NoGroup
    /\ items' = <<>>
    /\ UNCHANGED <<pc, obj, allocs, passed, exported, env>>

\* ], -- the sidebar array is complete and becomes the property's value
EvalSidebar ==
    /\ pc = "props"
    /\ NextProp = "sidebar"
    /\ grp = NoGroup
    /\ Len(groups) = Len(SrcSidebar)
    /\ obj' = obj @@ ("sidebar" :> Arr(groups))
    /\ groups' = <<>>
    /\ pc' = AfterProp("sidebar")
    /\ UNCHANGED <<grp, items, allocs, passed, exported, env>>

\* a call that leaves the evaluation at the call expression until it has run twice
CallDefineCollectionAgain ==
    /\ pc = "call"
    /\ passed' = Append(passed, Obj(obj))
    /\ pc' = IF Len(passed) = 0 THEN "call" ELSE "export"
    /\ UNCHANGED <<obj, groups, grp, items, allocs, exported, env>>

\* defineCollection({ ... })
CallDefineCollection ==
    /\ pc = "call"
    /\ passed' = Append(passed, Obj(obj))
    /\ pc' = "export"
    /\ UNCHANGED <<obj, groups, grp, items, allocs, exported, env>>

\* export default <the call's result>
ExportDefault ==
    /\ pc = "export"
    /\ exported' = TRUE
    /\ pc' = "done"
    /\ UNCHANGED <<obj, groups, grp, items, allocs, passed, env>>

Next ==
    \/ ImportDefineCollection
    \/ AllocRecord
    \/ EvalProperty
    \/ BeginGroup
    \/ EvalItem
    \/ EndGroup
    \/ EvalSidebar
    \/ CallDefineCollection
    \/ ExportDefault

Spec == Init /\ [][Next]_vars

(***************************************************************************)
(* Reading the record defineCollection was called with                     *)
(***************************************************************************)
\* the calls made so far
Calls == 1..Len(passed)

\* the groups of the n-th call's sidebar
GroupsOf(n) == passed[n].v["sidebar"].v

\* the items of group g of the n-th call's sidebar
ItemsOf(n, g) == GroupsOf(n)[g].v["items"].v

\* every (call, group, item) position
Positions ==
    { <<n, g, i>> \in Calls \X (1..Len(SrcSidebar)) \X (1..Len(SrcItems)) :
        /\ g <= Len(GroupsOf(n))
        /\ i <= Len(ItemsOf(n, g)) }

LinkAt(p) == ItemsOf(p[1], p[2])[p[3]].v["link"].v

TextAt(p) == ItemsOf(p[1], p[2])[p[3]].v["text"].v

\* the number written by the three leading digits of a link, -1 when there is none
LinkNumber(link) ==
    IF Len(link) >= 3 /\ IsDigit(link[1]) /\ IsDigit(link[2]) /\ IsDigit(link[3])
    THEN 100 * (link[1] - 48) + 10 * (link[2] - 48) + (link[3] - 48)
    ELSE -1

\* the part of a link between 'NNN-' and '.md', <<>> when the link has another form
LinkTitle(link) ==
    IF LinkNumber(link) >= 0 /\ Len(link) >= 7 /\ link[4] = 45
       /\ EndsWith(link, <<46, 109, 100>>)
    THEN SubSeq(link, 5, Len(link) - 3)
    ELSE <<>>

\* the Chinese numerals for one to nine, by value
CnDigits == <<19968, 20108, 19977, 22235, 20116, 20845, 19971, 20843, 20061>>

CnDigit(c) == IF \E d \in 1..9 : CnDigits[d] = c
              THEN CHOOSE d \in 1..9 : CnDigits[d] = c
              ELSE 0

\* the value of a Chinese numeral below one hundred (21313 is ten), 0 when malformed
CnValue(s) ==
    CASE Len(s) = 1 /\ s[1] = 21313 -> 10
      [] Len(s) = 1 /\ s[1] # 21313 -> CnDigit(s[1])
      [] Len(s) = 2 /\ s[1] = 21313 /\ CnDigit(s[2]) > 0 -> 10 + CnDigit(s[2])
      [] Len(s) = 2 /\ s[2] = 21313 /\ CnDigit(s[1]) > 0 -> 10 * CnDigit(s[1])
      [] Len(s) = 3 /\ s[2] = 21313 /\ CnDigit(s[1]) > 0 /\ CnDigit(s[3]) > 0
            -> 10 * CnDigit(s[1]) + CnDigit(s[3])
      [] OTHER -> 0

\* N of a label '第N章 <title>' (31532 ... 31456 32 ...), 0 when the label has another form
LabelOrdinal(text) ==
    LET e == IndexOf(text, 31456)
    IN  IF Len(text) >= 1 /\ text[1] = 31532 /\ e > 2
        THEN CnValue(SubSeq(text, 2, e - 1))
        ELSE 0

\* the title of a label '第N章 <title>'
LabelTitle(text) ==
    LET e == IndexOf(text, 31456)
    IN  IF e > 0 /\ Len(text) > e + 1 /\ text[e + 1] = 32
        THEN SubSeq(text, e + 2, Len(text))
        ELSE <<>>

\* some sidebar link names a file the directory does not hold
LinkedFileMissing ==
    \E g \in 1..Len(SrcSidebar) : \E i \in 1..Len(SrcSidebar[g].items) :
        SrcSidebar[g].items[i].link \notin files

\* some file of the directory has a permalink outside linkPrefix
PermalinkMismatch ==
    \E f \in files : ~StartsWith(permalink[f], SrcLinkPrefix)

\* what the argument literal denotes, whatever the directory holds
ExpectedRecord ==
    Obj([type             |-> Str(SrcType),
         dir              |-> Str(SrcDir),
         linkPrefix       |-> Str(SrcLinkPrefix),
         title            |-> Str(SrcTitle),
         sidebar          |-> Arr([g \in 1..Len(SrcSidebar) |->
             Obj([text      |-> Str(SrcSidebar[g].text),
                  collapsed |-> Bool(SrcSidebar[g].collapsed),
                  items     |-> Arr([i \in 1..Len(SrcSidebar[g].items) |->
                      Obj([text |-> Str(SrcSidebar[g].items[i].text),
                           link |-> Str(SrcSidebar[g].items[i].link)])])])]),
         sidebarCollapsed |-> Bool(SrcSidebarCollapsed)])

(***************************************************************************)
(* Properties                                                              *)
(***************************************************************************)

C4_RecordShape ==
    \A n \in Calls :
        LET r == passed[n]
        IN  /\ r.t = "object"
            /\ DOMAIN r.v = {"type", "dir", "linkPrefix", "title", "sidebar", "sidebarCollapsed"}
            /\ r.v["type"].t = "string"
            /\ r.v["type"].v = <<100, 111, 99>>
            /\ r.v["dir"].t = "string"
            /\ r.v["linkPrefix"].t = "string"
            /\ r.v["title"].t = "string"
            /\ r.v["sidebar"].t = "array"
            /\ r.v["sidebarCollapsed"].t = "boolean"
            /\ r.v["sidebarCollapsed"].v \in BOOLEAN

C4_Witness ==
    /\ Len(passed) = 1
    /\ Cardinality(DOMAIN passed[1].v) = 6
    /\ passed[1].v["sidebarCollapsed"] = Bool(TRUE)

\* C5: every element of sidebar is a group with a string text, a boolean
\* collapsed and an array items; every item has a non-empty string text and a
\* non-empty string link that does not start with '/' and has no '..' segment.
C5_GroupsAndItemsWellFormed ==
    \A n \in Calls :
        \A g \in 1..Len(GroupsOf(n)) :
            LET group == GroupsOf(n)[g]
            IN  /\ group.t = "object"
                /\ DOMAIN group.v = {"text", "collapsed", "items"}
                /\ group.v["text"].t = "string"
                /\ group.v["collapsed"].t = "boolean"
                /\ group.v["items"].t = "array"
                /\ \A i \in 1..Len(group.v["items"].v) :
                      LET item == group.v["items"].v[i]
                      IN  /\ item.t = "object"
                          /\ DOMAIN item.v = {"text", "link"}
                          /\ item.v["text"].t = "string"
                          /\ item.v["link"].t = "string"
                          /\ Len(item.v["text"].v) > 0
                          /\ Len(item.v["link"].v) > 0
                          /\ item.v["link"].v[1] # 47
                          /\ \A k \in 1..Len(Split(item.v["link"].v)) :
                                Split(item.v["link"].v)[k] # <<46, 46>>

C5_Witness ==
    /\ Len(passed) = 1
    /\ Len(GroupsOf(1)) = 1
    /\ Len(ItemsOf(1, 1)) = 7
    /\ Split(LinkAt(<<1, 1, 4>>)) = << <<48, 48, 52, 45, 20915, 31574, 46, 109, 100>> >>

C7_LinksDistinctAndNumberedInOrder ==
    /\ \A p \in Positions : \A q \in Positions :
          (p[1] = q[1] /\ p # q) => LinkAt(p) # LinkAt(q)
    /\ \A p \in Positions : LinkNumber(LinkAt(p)) = p[3]
    /\ \A n \in Calls : \A g \in 1..Len(GroupsOf(n)) : Len(ItemsOf(n, g)) = 7

C7_Witness ==
    /\ Cardinality(Positions) = 7
    /\ LinkNumber(LinkAt(<<1, 1, 1>>)) = 1
    /\ LinkNumber(LinkAt(<<1, 1, 7>>)) = 7

\* C8: for every sidebar item, the ordinal N of its label '第N章 ...' equals the
\* number written by the link's three leading digits, and the title after the
\* ordinal equals the part of the link between 'NNN-' and '.md'.
C8_LabelMatchesLink ==
    \A p \in Positions :
        /\ LabelOrdinal(TextAt(p)) > 0
        /\ LabelOrdinal(TextAt(p)) = LinkNumber(LinkAt(p))
        /\ LabelTitle(TextAt(p)) # <<>>
        /\ LabelTitle(TextAt(p)) = LinkTitle(LinkAt(p))

C8_Witness ==
    /\ Cardinality(Positions) = 7
    /\ LabelOrdinal(TextAt(<<1, 1, 3>>)) = 3
    /\ LabelTitle(TextAt(<<1, 1, 3>>)) = <<22788, 29702, 22522, 26412, 25968, 25454, 31867, 22411>>
    /\ LinkTitle(LinkAt(<<1, 1, 3>>)) = <<22788, 29702, 22522, 26412, 25968, 25454, 31867, 22411>>

\* C9: linkPrefix is dir preceded by a single '/'.
C9_LinkPrefixIsSlashDir ==
    \A n \in Calls :
        passed[n].v["linkPrefix"].v = <<47>> \o passed[n].v["dir"].v

C9_Witness ==
    /\ Len(passed) = 1
    /\ passed[1].v["dir"].v = <<99, 112, 112, 115, 116, 117, 100, 121>>
    /\ passed[1].v["linkPrefix"].v[1] = 47
    /\ Len(passed[1].v["linkPrefix"].v) = 9

====
